---- MODULE Spec2Model ----
(***************************************************************************)
(* A model of the generic hash map of lib/hashmap.h and of the linked list *)
(* of lib/list.h it keeps its buckets in.  Chain nodes live in a heap of   *)
(* cells addressed by small integers; the bucket array is held by value    *)
(* together with the identity of the allocation it lives in.               *)
(***************************************************************************)
EXTENDS Integers, Sequences, FiniteSets, TLC

\* ------------------------------------------------------------------ bounds
MaxKey == 2
MaxVal == 2
MaxCap == 2
\* mallocs that may return NULL in one run
MaxFails == 1

Keys == 0..MaxKey
Vals == 1..MaxVal
\* a live map never holds more nodes than keys; one spare cell
MaxNodes == MaxKey + 2
\* capacities handed to hmap_new_cap: a negative one, zero, and valid ones
CapInputs == (-1)..MaxCap

\* ------------------------------------------------------- program constants
STATUS_OK == 0
ERROR_OUT_OF_MEM == 10
ERROR_BAD_ARG == 20
INITIAL_HASHMAP_CAPACITY == 100
HASHMAP_GROWTH_FACTOR == 2

NULL == 0
Addr == 1..MaxNodes

\* ------------------------------------------------------------------- state
VARIABLES
    pc,            \* "none": no map yet; "live"; "freed"; "undefined": after UB
    heap,          \* chain nodes: Addr -> cell
    buckets,       \* map->buckets[0..capacity-1], each a LinkedList struct
    buckets_ptr,   \* identity of the allocation map->buckets points to
    size,          \* map->size
    capacity,      \* map->capacity
    hash_func,     \* map->hash_func
    ret,           \* what the last call did and returned
    model,         \* history, kept while no malloc has failed: key -> value of
                   \* the last put not followed by a remove
    failures,      \* history: number of mallocs that have returned NULL
    resizes,       \* history: number of resizes that replaced the bucket array
    init_capacity, \* history: the capacity the map was constructed with
    arrays,        \* the bucket arrays malloc has returned, in order: for each
                   \* the number of times it was passed to free
    realloc_zero   \* what realloc(p, 0) does in this build of the C library

vars == <<pc, heap, buckets, buckets_ptr, size, capacity, hash_func, ret,
          model, failures, resizes, init_capacity, arrays, realloc_zero>>

\* ---------------------------------------------------------- option structs
\* (variant of opt_none: the absent option carries an error code)
opt_none_bad_arg == [present |-> FALSE, item |-> 0, error |-> ERROR_BAD_ARG]

\* DECL_OPTION: opt_T_none() leaves item and error zero-initialised
opt_none == [present |-> FALSE, item |-> 0, error |-> STATUS_OK]
opt_some(v) == [present |-> TRUE, item |-> v, error |-> STATUS_OK]
\* (variant of OPT_NONE_ERR: the code is not stored)
OPT_NONE_ERR_dropped(code) == opt_none

OPT_NONE_ERR(code) == [opt_none EXCEPT !.error = code]

\* ------------------------------------------------------------------ heap
FreeCell == [used |-> FALSE, next |-> NULL, key |-> 0, val |-> 0]
EmptyHeap == [a \in Addr |-> FreeCell]

\* malloc(sizeof *node): the lowest free cell (addresses are only ever
\* compared for equality, so any free cell behaves alike); NULL when told to
\* fail or when no cell is left
malloc(h, ok) ==
    LET free == {a \in Addr : ~h[a].used} IN
    IF ~ok \/ free = {} THEN NULL
    ELSE CHOOSE a \in free : \A b \in free : a <= b

free(h, a) == [h EXCEPT ![a] = FreeCell]

\* ------------------------------------------------------------ linked list
\* (variant of ll_new: the length is not zeroed)
ll_new_counted == [root |-> NULL, last |-> NULL, length |-> 1]

ll_new == [root |-> NULL, last |-> NULL, length |-> 0]

\* (variant of ll_pushb: the length is counted before the node is allocated)
ll_pushb_counts_first(h, list, key, val, ok) ==
    LET node == malloc(h, ok) IN
    IF node = NULL
    THEN [heap |-> h, list |-> [list EXCEPT !.length = @ + 1],
          res |-> ERROR_OUT_OF_MEM]
    ELSE LET h1 == [h EXCEPT ![node] =
                       [used |-> TRUE, next |-> NULL, key |-> key, val |-> val]]
         IN IF list.root = NULL
            THEN [heap |-> h1,
                  list |-> [root |-> node, last |-> node, length |-> 1],
                  res |-> STATUS_OK]
            ELSE [heap |-> [h1 EXCEPT ![list.last].next = node],
                  list |-> [list EXCEPT !.last = node, !.length = @ + 1],
                  res |-> STATUS_OK]

\* (variant of ll_pushb: last is not moved to the node appended)
ll_pushb_keeps_last(h, list, key, val, ok) ==
    LET node == malloc(h, ok) IN
    IF node = NULL THEN [heap |-> h, list |-> list, res |-> ERROR_OUT_OF_MEM]
    ELSE LET h1 == [h EXCEPT ![node] =
                       [used |-> TRUE, next |-> NULL, key |-> key, val |-> val]]
         IN IF list.root = NULL
            THEN [heap |-> h1,
                  list |-> [root |-> node, last |-> node, length |-> 1],
                  res |-> STATUS_OK]
            ELSE [heap |-> [h1 EXCEPT ![list.last].next = node],
                  list |-> [list EXCEPT !.length = @ + 1],
                  res |-> STATUS_OK]

ll_pushb(h, list, key, val, ok) ==
    LET node == malloc(h, ok) IN
    IF node = NULL THEN [heap |-> h, list |-> list, res |-> ERROR_OUT_OF_MEM]
    ELSE LET h1 == [h EXCEPT ![node] =
                       [used |-> TRUE, next |-> NULL, key |-> key, val |-> val]]
         IN IF list.root = NULL
            THEN [heap |-> h1,
                  list |-> [root |-> node, last |-> node, length |-> 1],
                  res |-> STATUS_OK]
            ELSE [heap |-> [h1 EXCEPT ![list.last].next = node],
                  list |-> [list EXCEPT !.last = node, !.length = @ + 1],
                  res |-> STATUS_OK]

ll_pushf(h, list, key, val, ok) ==
    LET node == malloc(h, ok) IN
    IF node = NULL THEN [heap |-> h, list |-> list, res |-> ERROR_OUT_OF_MEM]
    ELSE LET h1 == [h EXCEPT ![node] =
                       [used |-> TRUE, next |-> list.root, key |-> key, val |-> val]]
         IN IF list.root = NULL
            THEN [heap |-> h1,
                  list |-> [root |-> node, last |-> node, length |-> 1],
                  res |-> STATUS_OK]
            ELSE [heap |-> h1,
                  list |-> [list EXCEPT !.root = node, !.length = @ + 1],
                  res |-> STATUS_OK]

\* (variant of ll_popf: the length is left as it was when nodes remain)
ll_popf_keeps_count(h, list) ==
    IF list.root = NULL
    THEN [heap |-> h, list |-> list, present |-> FALSE, key |-> 0, val |-> 0]
    ELSE IF list.root = list.last
    THEN [heap |-> free(h, list.root),
          list |-> [root |-> NULL, last |-> NULL, length |-> 0],
          present |-> TRUE, key |-> h[list.root].key, val |-> h[list.root].val]
    ELSE [heap |-> free(h, list.root),
          list |-> [list EXCEPT !.root = h[list.root].next],
          present |-> TRUE, key |-> h[list.root].key, val |-> h[list.root].val]

ll_popf(h, list) ==
    IF list.root = NULL
    THEN [heap |-> h, list |-> list, present |-> FALSE, key |-> 0, val |-> 0]
    ELSE IF list.root = list.last
    THEN [heap |-> free(h, list.root),
          list |-> [root |-> NULL, last |-> NULL, length |-> 0],
          present |-> TRUE, key |-> h[list.root].key, val |-> h[list.root].val]
    ELSE [heap |-> free(h, list.root),
          list |-> [list EXCEPT !.root = h[list.root].next, !.length = @ - 1],
          present |-> TRUE, key |-> h[list.root].key, val |-> h[list.root].val]

\* (variant of before_last: the loop is not entered)
before_last_root(h, curr, last) == curr

\* the loop of ll_popb: the node whose next is list->last
RECURSIVE before_last(_, _, _)
before_last(h, curr, last) ==
    IF h[curr].next # last THEN before_last(h, h[curr].next, last) ELSE curr

\* (variant of ll_popb: the item is taken from the front)
ll_popb_front(h, list) == ll_popf(h, list)

ll_popb(h, list) ==
    IF list.root = NULL
    THEN [heap |-> h, list |-> list, present |-> FALSE, key |-> 0, val |-> 0]
    ELSE IF list.root = list.last
    THEN [heap |-> free(h, list.root),
          list |-> [root |-> NULL, last |-> NULL, length |-> 0],
          present |-> TRUE, key |-> h[list.root].key, val |-> h[list.root].val]
    ELSE LET curr == before_last(h, list.root, list.last) IN
         [heap |-> [free(h, list.last) EXCEPT ![curr].next = NULL],
          list |-> [list EXCEPT !.last = curr, !.length = @ - 1],
          present |-> TRUE, key |-> h[list.last].key, val |-> h[list.last].val]

\* (variant of ll_remove: the root is taken off with ll_popb)
ll_remove_root_popb(h, list, node, prev) ==
    IF list.root = NULL THEN [heap |-> h, list |-> list]
    ELSE IF node = list.root \/ node = list.last
    THEN LET p == ll_popb(h, list) IN [heap |-> p.heap, list |-> p.list]
    ELSE IF prev # NULL /\ h[prev].next = node
    THEN [heap |-> [free(h, node) EXCEPT ![prev].next = h[node].next],
          list |-> [list EXCEPT !.length = @ - 1]]
    ELSE [heap |-> h, list |-> list]

\* (variant of ll_remove: a prev that does not come before node still costs
\* the list one of its length)
ll_remove_stray_counts(h, list, node, prev) ==
    IF list.root = NULL THEN [heap |-> h, list |-> list]
    ELSE IF node = list.root
    THEN LET p == ll_popf(h, list) IN [heap |-> p.heap, list |-> p.list]
    ELSE IF node = list.last
    THEN LET p == ll_popb(h, list) IN [heap |-> p.heap, list |-> p.list]
    ELSE IF prev # NULL /\ h[prev].next = node
    THEN [heap |-> [free(h, node) EXCEPT ![prev].next = h[node].next],
          list |-> [list EXCEPT !.length = @ - 1]]
    ELSE [heap |-> h, list |-> [list EXCEPT !.length = @ - 1]]

\* (variant of ll_remove: a node inside the list is freed but the node before
\* it keeps pointing to it)
ll_remove_unlinked(h, list, node, prev) ==
    IF list.root = NULL THEN [heap |-> h, list |-> list]
    ELSE IF node = list.root
    THEN LET p == ll_popf(h, list) IN [heap |-> p.heap, list |-> p.list]
    ELSE IF node = list.last
    THEN LET p == ll_popb(h, list) IN [heap |-> p.heap, list |-> p.list]
    ELSE IF prev # NULL /\ h[prev].next = node
    THEN [heap |-> free(h, node), list |-> [list EXCEPT !.length = @ - 1]]
    ELSE [heap |-> h, list |-> list]

ll_remove(h, list, node, prev) ==
    IF list.root = NULL THEN [heap |-> h, list |-> list]
    ELSE IF node = list.root
    THEN LET p == ll_popf(h, list) IN [heap |-> p.heap, list |-> p.list]
    ELSE IF node = list.last
    THEN LET p == ll_popb(h, list) IN [heap |-> p.heap, list |-> p.list]
    ELSE IF prev # NULL /\ h[prev].next = node
    THEN [heap |-> [free(h, node) EXCEPT ![prev].next = h[node].next],
          list |-> [list EXCEPT !.length = @ - 1]]
    ELSE [heap |-> h, list |-> list]

\* the loop of ll_free: free curr and everything after it
\* (variant of free_from: only the first node is freed)
free_from_first(h, curr) == free(h, curr)

RECURSIVE free_from(_, _)
free_from(h, curr) ==
    IF curr = NULL THEN h ELSE free_from(free(h, curr), h[curr].next)

ll_free(h, list) == IF list.root = NULL THEN h ELSE free_from(h, list.root)

\* ---------------------------------------------------------------- hash map
\* the key comparison function the map is built with (int_cmp)
key_cmp(a, b) == a = b

\* the hash functions a map may be built with: itod_hash_func, and one that
\* sends every key to the same bucket
itod_hash_func == [k \in Keys |-> k]
same_hash_func == [k \in Keys |-> 0]
HashFuncs == {itod_hash_func, same_hash_func}

\* (variant of bucket_pos: every key goes to the first bucket)
bucket_pos_first(hf, key, cap) == 0

\* the bucket a key belongs to
bucket_pos(hf, key, cap) == hf[key] % cap

\* (variant of find_node: only the first node is compared)
find_node_first_only(h, prev, curr, key) ==
    IF curr # NULL /\ key_cmp(h[curr].key, key)
    THEN [prev |-> prev, curr |-> curr]
    ELSE [prev |-> curr, curr |-> NULL]

\* the chain walk shared by put, get and remove: the first node from curr on
\* whose key matches, with the node before it; NULL when there is none
RECURSIVE find_node(_, _, _, _)
find_node(h, prev, curr, key) ==
    IF curr # NULL /\ ~key_cmp(h[curr].key, key)
    THEN find_node(h, curr, h[curr].next, key)
    ELSE [prev |-> prev, curr |-> curr]

\* (variant of resize_due: a threshold test instead of an equality test)
resize_due_ge(sz, cap) == sz >= cap + 1

\* the growth check made after map->size++
resize_due(sz, cap) == sz = cap + 1

\* (variant of new_capacity_of: the growth factor of the vector)
new_capacity_of_half(cap) == (3 * cap) \div 2

\* the capacity _resize grows the map to
new_capacity_of(cap) == HASHMAP_GROWTH_FACTOR * cap

\* (variant of resize_pos: the bucket is computed with the old capacity)
resize_pos_old(m, key, new_capacity) == bucket_pos(m.hash_func, key, m.capacity)

\* the bucket of the new array an entry is moved to
resize_pos(m, key, new_capacity) == bucket_pos(m.hash_func, key, new_capacity)

\* the inner while loop of _resize for bucket i; st.n counts the mallocs made
\* so far in the enclosing hmap_put, fails are the ones that return NULL.  The
\* status returned by ll_pushf is not looked at.
RECURSIVE drain_bucket(_, _, _, _, _)
drain_bucket(st, i, m, new_capacity, fails) ==
    LET p == ll_popf(st.heap, st.old[i]) IN
    IF ~p.present THEN st
    ELSE LET new_pos == resize_pos(m, p.key, new_capacity)
             ok == (st.n + 1) \notin fails
             q == ll_pushf(p.heap, st.new[new_pos], p.key, p.val, ok)
         IN drain_bucket([heap |-> q.heap,
                          old |-> [st.old EXCEPT ![i] = p.list],
                          new |-> [st.new EXCEPT ![new_pos] = q.list],
                          n |-> st.n + 1],
                         i, m, new_capacity, fails)

\* the ll_free of bucket i that ends each round of the outer loop of _resize
freed_bucket(st, i) == [st EXCEPT !.heap = ll_free(st.heap, st.old[i])]

\* the outer for loop of _resize from bucket i on
RECURSIVE drain(_, _, _, _, _)
drain(st, i, m, new_capacity, fails) ==
    IF i >= m.capacity THEN st
    ELSE drain(freed_bucket(drain_bucket(st, i, m, new_capacity, fails), i),
               i + 1, m, new_capacity, fails)

\* (variant of resize_alloc_failed: the failure is not reported)
resize_alloc_failed_ok(m, n) ==
    [m |-> m, status |-> STATUS_OK, n |-> n + 1, replaced |-> FALSE]

\* _resize when malloc of the new bucket array returned NULL
resize_alloc_failed(m, n) ==
    [m |-> m, status |-> ERROR_OUT_OF_MEM, n |-> n + 1, replaced |-> FALSE]

\* free(p) of a bucket array
free_array(as, p) == [as EXCEPT ![p] = @ + 1]

\* _resize; n mallocs were made before it in the enclosing hmap_put
resize(m, n, fails) ==
    LET new_capacity == new_capacity_of(m.capacity) IN
    IF (n + 1) \in fails THEN resize_alloc_failed(m, n)
    ELSE LET new_buckets == [i \in 0..(new_capacity - 1) |-> ll_new]
             d == drain([heap |-> m.heap, old |-> m.buckets,
                         new |-> new_buckets, n |-> n + 1],
                        0, m, new_capacity, fails)
         IN [m |-> [m EXCEPT !.heap = d.heap,
                             !.buckets = d.new,
                             !.buckets_ptr = @ + 1,
                             !.arrays = Append(free_array(@, m.buckets_ptr), 0),
                             !.capacity = new_capacity],
             status |-> STATUS_OK, n |-> d.n, replaced |-> TRUE]

\* hmap_put from the ll_pushb of a new entry on (both copies of that code);
\* ll_pushb works on the chain in place, whatever it returns
put_new_entry(m, pos, key, val, fails, path) ==
    LET r == ll_pushb(m.heap, m.buckets[pos], key, val, 1 \notin fails) IN
    IF r.res # STATUS_OK
    THEN [m |-> [m EXCEPT !.heap = r.heap, !.buckets[pos] = r.list],
          status |-> r.res, path |-> path, added |-> FALSE,
          resize_called |-> FALSE, replaced |-> FALSE, n |-> 1]
    ELSE LET m1 == [m EXCEPT !.heap = r.heap,
                             !.buckets[pos] = r.list,
                             !.size = @ + 1]
         IN IF resize_due(m1.size, m1.capacity)
            THEN LET e == resize(m1, 1, fails) IN
                 [m |-> e.m, status |-> e.status, path |-> path, added |-> TRUE,
                  resize_called |-> TRUE, replaced |-> e.replaced, n |-> e.n]
            ELSE [m |-> m1, status |-> STATUS_OK, path |-> path, added |-> TRUE,
                  resize_called |-> FALSE, replaced |-> FALSE, n |-> 1]

\* (variant of hmap_put: the chain is not searched for the key)
hmap_put_no_search(m, key, val, fails) ==
    LET pos == bucket_pos(m.hash_func, key, m.capacity)
        list == m.buckets[pos]
    IN IF list.length = 0
       THEN put_new_entry(m, pos, key, val, fails, "empty")
       ELSE put_new_entry(m, pos, key, val, fails, "append")

hmap_put(m, key, val, fails) ==
    LET pos == bucket_pos(m.hash_func, key, m.capacity)
        list == m.buckets[pos]
    IN IF list.length = 0
       THEN put_new_entry(m, pos, key, val, fails, "empty")
       ELSE LET f == find_node(m.heap, NULL, list.root, key) IN
            IF f.curr # NULL
            THEN [m |-> [m EXCEPT !.heap[f.curr].val = val],
                  status |-> STATUS_OK, path |-> "overwrite", added |-> FALSE,
                  resize_called |-> FALSE, replaced |-> FALSE, n |-> 0]
            ELSE put_new_entry(m, pos, key, val, fails, "append")

hmap_get(m, key) ==
    LET pos == bucket_pos(m.hash_func, key, m.capacity)
        f == find_node(m.heap, NULL, m.buckets[pos].root, key)
    IN IF f.curr # NULL THEN opt_some(m.heap[f.curr].val) ELSE opt_none

\* (variant of hmap_remove: a miss is counted as a removal)
hmap_remove_miss_counts(m, key) ==
    LET pos == bucket_pos(m.hash_func, key, m.capacity)
        f == find_node(m.heap, NULL, m.buckets[pos].root, key)
    IN IF f.curr = NULL THEN [m |-> [m EXCEPT !.size = @ - 1], opt |-> opt_none]
       ELSE LET r == ll_remove(m.heap, m.buckets[pos], f.curr, f.prev) IN
            [m |-> [m EXCEPT !.heap = r.heap,
                             !.buckets[pos] = r.list,
                             !.size = @ - 1],
             opt |-> opt_some(m.heap[f.curr].val)]

hmap_remove(m, key) ==
    LET pos == bucket_pos(m.hash_func, key, m.capacity)
        f == find_node(m.heap, NULL, m.buckets[pos].root, key)
    IN IF f.curr = NULL THEN [m |-> m, opt |-> opt_none]
       ELSE LET r == ll_remove(m.heap, m.buckets[pos], f.curr, f.prev) IN
            [m |-> [m EXCEPT !.heap = r.heap,
                             !.buckets[pos] = r.list,
                             !.size = @ - 1],
             opt |-> opt_some(m.heap[f.curr].val)]

\* the number of mallocs hmap_put(key, val) makes when none of them fails:
\* the malloc outcomes of one call are drawn over these
put_mallocs(m, key, val) == hmap_put(m, key, val, {}).n

\* the loop of hmap_free over buckets lo..hi-1, in index order.  The range is
\* split in halves and the first half is evaluated (the test on its domain)
\* before the second is entered, so that 100 buckets do not nest 100
\* evaluations.
RECURSIVE free_buckets(_, _, _, _)
free_buckets(h, bs, lo, hi) ==
    IF lo >= hi THEN h
    ELSE IF hi = lo + 1 THEN ll_free(h, bs[lo])
    ELSE LET mid == (lo + hi) \div 2
             first == free_buckets(h, bs, lo, mid)
         IN IF DOMAIN first = Addr THEN free_buckets(first, bs, mid, hi)
            ELSE first

\* Node addresses carry no meaning beyond identity (the code compares them
\* only for equality), so which free cell malloc hands out is immaterial.  The
\* heap is kept in one representative numbering: the nodes of the chains in
\* bucket order and chain order, then every other cell in address order.
RECURSIVE chain_addrs(_, _)
chain_addrs(h, curr) ==
    IF curr = NULL THEN <<>> ELSE <<curr>> \o chain_addrs(h, h[curr].next)

renumber(m) ==
    LET occupied == {i \in DOMAIN m.buckets : m.buckets[i].root # NULL}
        chain == [i \in occupied |-> chain_addrs(m.heap, m.buckets[i].root)]
        places == UNION {{<<i, p, chain[i][p]>> : p \in 1..Len(chain[i])} :
                            i \in occupied}
        chained == {t[3] : t \in places}
        place(a) == CHOOSE t \in places : t[3] = a
        earlier(t, u) == t[1] < u[1] \/ (t[1] = u[1] /\ t[2] < u[2])
        to == [a \in Addr |->
                 IF a \in chained
                 THEN 1 + Cardinality({t \in places : earlier(t, place(a))})
                 ELSE Cardinality(chained)
                      + Cardinality({b \in Addr \ chained : b <= a})]
        from(b) == CHOOSE a \in Addr : to[a] = b
        ptr(x) == IF x = NULL THEN NULL ELSE to[x]
    IN IF \A a \in Addr : to[a] = a THEN m
       ELSE [m EXCEPT
               !.heap = [b \in Addr |-> [m.heap[from(b)] EXCEPT !.next = ptr(@)]],
               !.buckets = [i \in DOMAIN m.buckets |->
                               IF i \in occupied
                               THEN [m.buckets[i] EXCEPT !.root = ptr(@),
                                                         !.last = ptr(@)]
                               ELSE [m.buckets[i] EXCEPT !.last = ptr(@)]]]

\* the HashMap struct together with the heap its chains live in
Map == [heap |-> heap, buckets |-> buckets, buckets_ptr |-> buckets_ptr,
        size |-> size, capacity |-> capacity, hash_func |-> hash_func,
        arrays |-> arrays]

\* ----------------------------------------------------------------- actions
\* the history of a map nothing was put into
NoModel == [k \in Keys |-> opt_none]
\* ret: the call (op, key, val, cap), what it returned (status for put, opt
\* for the others), and for put the path taken, whether _resize was called,
\* the number n of mallocs made and which of them (fails) returned NULL
NoRet == [op |-> "none", key |-> 0, val |-> 0, cap |-> 0,
          status |-> STATUS_OK, opt |-> opt_none, path |-> "none",
          resize_called |-> FALSE, n |-> 0, fails |-> {}]

Init ==
    /\ pc = "none"
    /\ heap = EmptyHeap
    /\ buckets = <<>>
    /\ buckets_ptr = 0
    /\ size = 0
    /\ capacity = 0
    /\ hash_func = itod_hash_func
    /\ ret = NoRet
    /\ model = NoModel
    /\ failures = 0
    /\ resizes = 0
    /\ init_capacity = 0
    /\ arrays = <<>>
    /\ realloc_zero = "frees and returns NULL"

\* the bucket-array malloc of hmap_new_cap: a negative capacity converts to a
\* size no allocator can serve; malloc(0) may return NULL or a pointer
new_cap_malloc_ok(c, ok) == IF c < 0 THEN FALSE ELSE ok

new_cap(c, hf, ok, op) ==
    /\ pc = "none"
    /\ new_cap_malloc_ok(c, ok) \/ failures < MaxFails
    /\ IF ~new_cap_malloc_ok(c, ok)
       THEN /\ ret' = [NoRet EXCEPT !.op = op, !.cap = c,
                                    !.opt = OPT_NONE_ERR(ERROR_OUT_OF_MEM),
                                    !.n = 1, !.fails = {1}]
            /\ failures' = failures + 1
            /\ UNCHANGED <<pc, heap, buckets, buckets_ptr, size, capacity,
                           hash_func, model, resizes, init_capacity, arrays, realloc_zero>>
       ELSE /\ pc' = "live"
            /\ buckets' = [i \in 0..(c - 1) |-> ll_new]
            /\ buckets_ptr' = 1
            /\ arrays' = <<0>>
            /\ capacity' = c
            /\ size' = 0
            /\ hash_func' = hf
            /\ init_capacity' = c
            /\ ret' = [NoRet EXCEPT !.op = op, !.cap = c, !.opt = opt_some(0),
                                    !.n = 1]
            /\ UNCHANGED <<heap, model, failures, resizes, realloc_zero>>

HmapNewCap == \E c \in CapInputs, hf \in HashFuncs, ok \in BOOLEAN :
                  new_cap(c, hf, ok, "new_cap")

HmapNew == \E hf \in HashFuncs, ok \in BOOLEAN :
               new_cap(INITIAL_HASHMAP_CAPACITY, hf, ok, "new")

\* hash % map->capacity with capacity 0 is undefined behaviour: the call
\* does not return and nothing is known of the map afterwards
Undefined(op, key) ==
    /\ pc' = "undefined"
    /\ ret' = [NoRet EXCEPT !.op = op, !.key = key]
    /\ UNCHANGED <<heap, buckets, buckets_ptr, size, capacity, hash_func,
                   model, failures, resizes, init_capacity, arrays, realloc_zero>>

\* one hmap_put(key, val) on a map of capacity > 0 whose mallocs numbered in
\* fails return NULL
put_call(key, val, fails) ==
    LET r == hmap_put(Map, key, val, fails)
        after == renumber(r.m)
        nfail == failures + Cardinality(fails \cap (1..r.n))
    IN /\ heap' = after.heap
       /\ buckets' = after.buckets
       /\ buckets_ptr' = r.m.buckets_ptr
       /\ size' = r.m.size
       /\ capacity' = r.m.capacity
       /\ arrays' = r.m.arrays
       /\ ret' = [NoRet EXCEPT !.op = "put", !.key = key, !.val = val,
                               !.status = r.status, !.path = r.path,
                               !.resize_called = r.resize_called,
                               !.n = r.n, !.fails = fails \cap (1..r.n)]
       /\ model' = IF nfail > 0 THEN NoModel ELSE [model EXCEPT ![key] = opt_some(val)]
       /\ failures' = nfail
       /\ resizes' = resizes + (IF r.replaced THEN 1 ELSE 0)
       /\ UNCHANGED <<pc, hash_func, init_capacity, realloc_zero>>

HmapPut ==
    /\ pc = "live"
    /\ \E key \in Keys, val \in Vals :
          IF capacity = 0 THEN Undefined("put", key)
          ELSE \E fails \in SUBSET (1..put_mallocs(Map, key, val)) :
                  /\ failures + Cardinality(fails) <= MaxFails
                  /\ put_call(key, val, fails)

HmapGet ==
    /\ pc = "live"
    /\ \E key \in Keys :
          IF capacity = 0 THEN Undefined("get", key)
          ELSE /\ ret' = [NoRet EXCEPT !.op = "get", !.key = key,
                                       !.opt = hmap_get(Map, key)]
               /\ UNCHANGED <<pc, heap, buckets, buckets_ptr, size, capacity,
                              hash_func, model, failures, resizes,
                              init_capacity, arrays, realloc_zero>>

HmapRemove ==
    /\ pc = "live"
    /\ \E key \in Keys :
          IF capacity = 0 THEN Undefined("remove", key)
          ELSE LET r == hmap_remove(Map, key)
                   after == renumber(r.m)
               IN
               /\ heap' = after.heap
               /\ buckets' = after.buckets
               /\ size' = r.m.size
               /\ ret' = [NoRet EXCEPT !.op = "remove", !.key = key,
                                       !.opt = r.opt]
               /\ model' = IF failures > 0 THEN NoModel ELSE [model EXCEPT ![key] = opt_none]
               /\ UNCHANGED <<pc, buckets_ptr, capacity, hash_func,
                              failures, resizes, init_capacity, arrays, realloc_zero>>

HmapFree ==
    /\ pc = "live"
    /\ pc' = "freed"
    /\ heap' = free_buckets(heap, buckets, 0, capacity)
    /\ buckets' = <<>>
    /\ buckets_ptr' = NULL
    /\ arrays' = free_array(arrays, buckets_ptr)
    /\ model' = NoModel
    /\ ret' = [NoRet EXCEPT !.op = "free"]
    /\ UNCHANGED <<size, capacity, hash_func, failures, resizes, init_capacity,
                   realloc_zero>>

Next == HmapNewCap \/ HmapNew \/ HmapPut \/ HmapGet \/ HmapRemove \/ HmapFree

Spec == Init /\ [][Next]_vars

\* The resize scenario of the tests: a map of capacity >= 1 is built and keys
\* not yet in it are inserted, no malloc failing.
BuildMap == \E c \in 1..MaxCap, hf \in HashFuncs : new_cap(c, hf, TRUE, "new_cap")

InsertDistinct ==
    /\ pc = "live"
    /\ \E key \in {k \in Keys : ~model[k].present}, val \in Vals :
          put_call(key, val, {})

SpecResize == Init /\ [][BuildMap \/ InsertDistinct]_vars

\* The removal scenario of the tests: a map of capacity >= 1 is built, keys
\* not in it are inserted and keys in it are removed, in any order (forward
\* and reverse order among them), no malloc failing.
RemoveHeld == HmapRemove /\ model[ret'.key].present

SpecRemoval == Init /\ [][BuildMap \/ InsertDistinct \/ RemoveHeld]_vars

\* ------------------------------------------------------- the list on its own
\* A LinkedList used directly, as the list tests do.  The list struct is held
\* as buckets[0], its nodes in heap, and pc is "list"; items are the
\* (key, val) pairs the map stores in its chains.
TheList == buckets[0]

\* the values of the items pushed: items are told apart by their keys
ListVals == {MaxVal}

\* the nodes of a list, in order
list_nodes(h, list) == chain_addrs(h, list.root)

\* ret of a list call: the item pushed or popped (key, val), the status a
\* push returned, the option a pop returned, and the arguments of ll_remove
LlRet == [op |-> "none", key |-> 0, val |-> 0, status |-> STATUS_OK,
          opt |-> opt_none, node |-> NULL, prev |-> NULL]

\* the list and the heap after a call, in the representative numbering
list_after(h, list, r) ==
    LET after == renumber([heap |-> h, buckets |-> [i \in {0} |-> list]])
    IN /\ heap' = after.heap
       /\ buckets' = after.buckets
       /\ ret' = r
       /\ UNCHANGED <<pc, buckets_ptr, size, capacity, hash_func, model,
                      resizes, init_capacity, arrays, realloc_zero>>

LlNew ==
    /\ pc = "none"
    /\ pc' = "list"
    /\ buckets' = [i \in {0} |-> ll_new]
    /\ ret' = [LlRet EXCEPT !.op = "ll_new"]
    /\ UNCHANGED <<heap, buckets_ptr, size, capacity, hash_func, model,
                   failures, resizes, init_capacity, arrays, realloc_zero>>

\* a push whose malloc returns NULL (ok false) counts in failures; one whose
\* malloc succeeds needs a free cell
push_guard(ok) ==
    IF ok THEN \E a \in Addr : ~heap[a].used ELSE failures < MaxFails

LlPushb ==
    /\ pc = "list"
    /\ \E key \in Keys, val \in ListVals, ok \in BOOLEAN :
          /\ push_guard(ok)
          /\ LET r == ll_pushb(heap, TheList, key, val, ok) IN
             list_after(r.heap, r.list,
                        [LlRet EXCEPT !.op = "ll_pushb", !.key = key,
                                      !.val = val, !.status = r.res])
          /\ failures' = IF ok THEN failures ELSE failures + 1

LlPushf ==
    /\ pc = "list"
    /\ \E key \in Keys, val \in ListVals, ok \in BOOLEAN :
          /\ push_guard(ok)
          /\ LET r == ll_pushf(heap, TheList, key, val, ok) IN
             list_after(r.heap, r.list,
                        [LlRet EXCEPT !.op = "ll_pushf", !.key = key,
                                      !.val = val, !.status = r.res])
          /\ failures' = IF ok THEN failures ELSE failures + 1

\* the option a pop returns
pop_opt(p) == IF p.present THEN opt_some(p.val) ELSE opt_none

LlPopb ==
    /\ pc = "list"
    /\ LET p == ll_popb(heap, TheList) IN
       list_after(p.heap, p.list,
                  [LlRet EXCEPT !.op = "ll_popb", !.key = p.key, !.val = p.val,
                                !.opt = pop_opt(p)])
    /\ UNCHANGED failures

LlPopf ==
    /\ pc = "list"
    /\ LET p == ll_popf(heap, TheList) IN
       list_after(p.heap, p.list,
                  [LlRet EXCEPT !.op = "ll_popf", !.key = p.key, !.val = p.val,
                                !.opt = pop_opt(p)])
    /\ UNCHANGED failures

\* the node arguments ll_remove is called with: a node of the list (NULL
\* when it has none), and as prev any node of the list or NULL
RemoveNodes == IF TheList.root = NULL THEN {NULL}
               ELSE {a \in Addr : \E p \in 1..MaxNodes :
                        /\ p <= Len(list_nodes(heap, TheList))
                        /\ list_nodes(heap, TheList)[p] = a}

LlRemove ==
    /\ pc = "list"
    /\ \E node \in RemoveNodes, prev \in RemoveNodes \cup {NULL} :
          LET r == ll_remove(heap, TheList, node, prev) IN
          list_after(r.heap, r.list,
                     [LlRet EXCEPT !.op = "ll_remove", !.node = node,
                                   !.prev = prev])
    /\ UNCHANGED failures

SpecList == Init /\ [][LlNew \/ LlPushb \/ LlPushf \/ LlPopb \/ LlPopf
                         \/ LlRemove]_vars

\* ------------------------------------------------------------------ vector
\* The vector of lib/vec.h, in the variables of the map: buckets_ptr is the
\* field v, buckets the contents of the allocation v points to (the items
\* v[0] .. v[n - 1] of a buffer of n items), size the field length, capacity
\* the field capacity, and heap[v].used tells whether the allocation lives.

\* the longest vector built
MaxVecLen == 4

INITIAL_VEC_CAPACITY == 100

\* what realloc(p, 0) does is left to the C library: it frees p, and returns
\* either NULL or a pointer to a buffer of no items
ReallocZero == {"frees and returns NULL", "frees and returns a pointer"}

\* the value of a slot malloc or realloc handed out and nothing was written to
indeterminate == 0

\* the Vec struct together with the heap and the contents of its buffer
Vec == [heap |-> heap, v |-> buckets_ptr, buf |-> buckets,
        capacity |-> capacity, length |-> size]

\* v points to an allocation that has not been freed
allocated(vec) == vec.v # NULL /\ vec.heap[vec.v].used

\* v[i] is an item of the allocation v points to
in_buffer(vec, i) == allocated(vec) /\ i \in DOMAIN vec.buf

\* a buffer of n items, none written
fresh_buffer(n) == [i \in 0..(n - 1) |-> indeterminate]

\* realloc(vec->v, sizeof *new_v * n) on a live allocation: the pointer
\* returned, and the heap and the contents of what vec->v points to afterwards
realloc(vec, n, ok, moved) ==
    IF n = 0 /\ realloc_zero = "frees and returns NULL"
    THEN [ptr |-> NULL, heap |-> free(vec.heap, vec.v), buf |-> fresh_buffer(0)]
    ELSE IF ~ok
    THEN [ptr |-> NULL, heap |-> vec.heap, buf |-> vec.buf]
    ELSE LET new == IF moved THEN malloc(vec.heap, TRUE) ELSE vec.v
             cell == [FreeCell EXCEPT !.used = TRUE]
         IN [ptr |-> new,
             heap |-> IF moved
                      THEN [free(vec.heap, vec.v) EXCEPT ![new] = cell]
                      ELSE vec.heap,
             buf |-> [i \in 0..(n - 1) |->
                         IF i \in DOMAIN vec.buf THEN vec.buf[i]
                         ELSE indeterminate]]

\* (variant of vec_new_capacity: the capacity doubles)
vec_new_capacity_double(c) == 2 * c

\* const long new_capacity = 1.5 * vec->capacity
vec_new_capacity(c) == (3 * c) \div 2

\* (variant of vec_grow: the new capacity is stored before realloc is tested)
vec_grow_commits_early(vec, ok, moved) ==
    LET new_capacity == vec_new_capacity(vec.capacity)
        r == realloc(vec, new_capacity, ok, moved)
    IN IF r.ptr = NULL
       THEN [vec |-> [vec EXCEPT !.heap = r.heap, !.buf = r.buf,
                                 !.capacity = new_capacity],
             status |-> ERROR_OUT_OF_MEM]
       ELSE [vec |-> [vec EXCEPT !.heap = r.heap, !.buf = r.buf, !.v = r.ptr,
                                 !.capacity = new_capacity],
             status |-> STATUS_OK]

\* the reallocation of _vec_push, made when the vector is full
vec_grow(vec, ok, moved) ==
    LET new_capacity == vec_new_capacity(vec.capacity)
        r == realloc(vec, new_capacity, ok, moved)
    IN IF r.ptr = NULL
       THEN [vec |-> [vec EXCEPT !.heap = r.heap, !.buf = r.buf],
             status |-> ERROR_OUT_OF_MEM]
       ELSE [vec |-> [vec EXCEPT !.heap = r.heap, !.buf = r.buf, !.v = r.ptr,
                                 !.capacity = new_capacity],
             status |-> STATUS_OK]

\* _vec_push.  defined is FALSE when the call has undefined behaviour: realloc
\* of a freed pointer, or a write of v[length] outside the allocation; vec is
\* then the vector left when the write does no harm that shows at once
vec_push(vec, item, ok, moved) ==
    LET full == vec.length = vec.capacity
        g == IF full THEN vec_grow(vec, ok, moved)
             ELSE [vec |-> vec, status |-> STATUS_OK]
    IN IF full /\ ~allocated(vec)
       THEN [vec |-> vec, status |-> STATUS_OK, defined |-> FALSE,
             index |-> -1, realloc_called |-> TRUE]
       ELSE IF g.status # STATUS_OK
       THEN [vec |-> g.vec, status |-> g.status, defined |-> TRUE,
             index |-> -1, realloc_called |-> TRUE]
       ELSE IF ~in_buffer(g.vec, g.vec.length)
       THEN [vec |-> [g.vec EXCEPT !.length = @ + 1],
             status |-> STATUS_OK, defined |-> FALSE,
             index |-> g.vec.length, realloc_called |-> full]
       ELSE [vec |-> [g.vec EXCEPT !.buf[g.vec.length] = item,
                                   !.length = @ + 1],
             status |-> STATUS_OK, defined |-> TRUE,
             index |-> g.vec.length, realloc_called |-> full]

\* the value read from v[i]: the item written there, and any value (junk)
\* when v[i] lies outside the allocation or was never written
slot_read(vec, i, junk) ==
    IF in_buffer(vec, i) /\ vec.buf[i] # indeterminate THEN vec.buf[i]
    ELSE junk

\* (variant of vec_pop: the length is not decremented)
vec_pop_keeps_length(vec, junk) ==
    IF vec.length = 0
    THEN [vec |-> vec, opt |-> opt_none, defined |-> TRUE]
    ELSE [vec |-> vec,
          opt |-> opt_some(slot_read(vec, vec.length - 1, junk)),
          defined |-> in_buffer(vec, vec.length - 1)]

\* _vec_pop.  defined is FALSE when v[length - 1] is read outside the
\* allocation; vec and opt are then what is left and returned when the read
\* does no harm that shows at once
vec_pop(vec, junk) ==
    IF vec.length = 0
    THEN [vec |-> vec, opt |-> opt_none, defined |-> TRUE]
    ELSE [vec |-> [vec EXCEPT !.length = @ - 1],
          opt |-> opt_some(slot_read(vec, vec.length - 1, junk)),
          defined |-> in_buffer(vec, vec.length - 1)]

\* (variant of vec_shrink: the capacity is left as it was)
vec_shrink_keeps_capacity(vec, ok, moved) ==
    LET r == realloc(vec, vec.length, ok, moved)
    IN IF ~allocated(vec)
       THEN [vec |-> vec, status |-> STATUS_OK, defined |-> FALSE]
       ELSE IF r.ptr = NULL
       THEN [vec |-> [vec EXCEPT !.heap = r.heap, !.buf = r.buf],
             status |-> ERROR_OUT_OF_MEM, defined |-> TRUE]
       ELSE [vec |-> [vec EXCEPT !.heap = r.heap, !.buf = r.buf, !.v = r.ptr],
             status |-> STATUS_OK, defined |-> TRUE]

\* _vec_shrink.  defined is FALSE when realloc is handed a freed pointer
vec_shrink(vec, ok, moved) ==
    LET r == realloc(vec, vec.length, ok, moved)
    IN IF ~allocated(vec)
       THEN [vec |-> vec, status |-> STATUS_OK, defined |-> FALSE]
       ELSE IF r.ptr = NULL
       THEN [vec |-> [vec EXCEPT !.heap = r.heap, !.buf = r.buf],
             status |-> ERROR_OUT_OF_MEM, defined |-> TRUE]
       ELSE [vec |-> [vec EXCEPT !.heap = r.heap, !.buf = r.buf, !.v = r.ptr,
                                 !.capacity = vec.length],
             status |-> STATUS_OK, defined |-> TRUE]

\* ret of the vector calls: the call (op, val, cap), what it returned, the
\* index _vec_push wrote at and whether it called realloc
VecRet == [op |-> "none", val |-> 0, cap |-> 0, status |-> STATUS_OK,
           opt |-> opt_none, index |-> -1, realloc_called |-> FALSE]

\* the state of the program when the first vector is about to be built
InitVec ==
    /\ pc = "none"
    /\ heap = EmptyHeap
    /\ buckets = <<>>
    /\ buckets_ptr = 0
    /\ size = 0
    /\ capacity = 0
    /\ hash_func = itod_hash_func
    /\ ret = VecRet
    /\ model = NoModel
    /\ failures = 0
    /\ resizes = 0
    /\ init_capacity = 0
    /\ arrays = <<>>
    /\ realloc_zero \in ReallocZero

\* the vector after a call that returned
vec_after(vec) ==
    /\ heap' = vec.heap
    /\ buckets_ptr' = vec.v
    /\ buckets' = vec.buf
    /\ capacity' = vec.capacity
    /\ size' = vec.length
    /\ UNCHANGED <<pc, hash_func, model, resizes, init_capacity, arrays,
                   realloc_zero>>

\* a vector call with undefined behaviour that shows at once: it does not
\* return and nothing is known of the vector afterwards
vec_undefined(r) ==
    /\ pc' = "undefined"
    /\ ret' = r
    /\ UNCHANGED <<heap, buckets, buckets_ptr, size, capacity, hash_func,
                   model, failures, resizes, init_capacity, arrays, realloc_zero>>

\* the malloc of _vec_new and _vec_new_cap and what follows it
vec_alloc(c, ok, op) ==
    /\ new_cap_malloc_ok(c, ok) \/ failures < MaxFails
    /\ IF ~new_cap_malloc_ok(c, ok)
       THEN /\ ret' = [VecRet EXCEPT !.op = op, !.cap = c,
                                     !.opt = OPT_NONE_ERR(ERROR_OUT_OF_MEM)]
            /\ failures' = failures + 1
            /\ UNCHANGED <<pc, heap, buckets, buckets_ptr, size, capacity,
                           hash_func, model, resizes, init_capacity, arrays,
                           realloc_zero>>
       ELSE /\ pc' = "vec"
            /\ heap' = [heap EXCEPT ![malloc(heap, TRUE)].used = TRUE]
            /\ buckets_ptr' = malloc(heap, TRUE)
            /\ buckets' = fresh_buffer(c)
            /\ capacity' = c
            /\ size' = 0
            /\ init_capacity' = c
            /\ ret' = [VecRet EXCEPT !.op = op, !.cap = c, !.opt = opt_some(c)]
            /\ UNCHANGED <<hash_func, model, failures, resizes, arrays,
                           realloc_zero>>

VecNew == /\ pc = "none"
          /\ \E ok \in BOOLEAN : vec_alloc(INITIAL_VEC_CAPACITY, ok, "vec_new")

\* _vec_new_cap returns an empty option for a capacity of zero
vec_new_cap_bad_arg(c) ==
    /\ ret' = [VecRet EXCEPT !.op = "vec_new_cap", !.cap = c,
                             !.opt = OPT_NONE_ERR(ERROR_BAD_ARG)]
    /\ UNCHANGED <<pc, heap, buckets, buckets_ptr, size, capacity, hash_func,
                   model, failures, resizes, init_capacity, arrays, realloc_zero>>

VecNewCap ==
    /\ pc = "none"
    /\ \E c \in CapInputs, ok \in BOOLEAN :
          IF c = 0 THEN vec_new_cap_bad_arg(c)
          ELSE vec_alloc(c, ok, "vec_new_cap")

\* a _vec_push call: what it leaves and what it returns
push_call(item, ok, moved) ==
    LET r == vec_push(Vec, item, ok, moved)
        call == [VecRet EXCEPT !.op = "vec_push", !.val = item,
                               !.status = r.status, !.index = r.index,
                               !.realloc_called = r.realloc_called]
    IN /\ r.realloc_called \/ (ok /\ ~moved)
       /\ ok \/ failures < MaxFails
       /\ \/ ~r.defined /\ vec_undefined(call)
          \/ /\ r.defined \/ r.index >= 0
             /\ vec_after(r.vec)
             /\ ret' = call
             /\ failures' = IF ok THEN failures ELSE failures + 1

VecPush ==
    /\ pc = "vec"
    /\ size < MaxVecLen
    /\ \E item \in Vals, ok \in BOOLEAN, moved \in BOOLEAN :
          push_call(item, ok, moved)

VecPop ==
    /\ pc = "vec"
    /\ \E junk \in Vals :
          LET r == vec_pop(Vec, junk)
              call == [VecRet EXCEPT !.op = "vec_pop", !.opt = r.opt]
          IN \/ ~r.defined /\ vec_undefined(call)
             \/ /\ vec_after(r.vec)
                /\ ret' = call
                /\ UNCHANGED failures

VecShrink ==
    /\ pc = "vec"
    /\ \E ok \in BOOLEAN, moved \in BOOLEAN :
          LET r == vec_shrink(Vec, ok, moved)
              call == [VecRet EXCEPT !.op = "vec_shrink", !.status = r.status]
          IN /\ ok \/ failures < MaxFails
             /\ IF ~r.defined THEN vec_undefined(call)
                ELSE /\ vec_after(r.vec)
                     /\ ret' = call
                     /\ failures' = IF ok THEN failures ELSE failures + 1

\* _vec_free: free(vec->v), undefined when v was freed already
VecFree ==
    /\ pc = "vec"
    /\ LET call == [VecRet EXCEPT !.op = "vec_free"]
       IN IF ~allocated(Vec) THEN vec_undefined(call)
          ELSE /\ pc' = "vec_freed"
               /\ heap' = free(heap, buckets_ptr)
               /\ buckets' = fresh_buffer(0)
               /\ ret' = call
               /\ UNCHANGED <<buckets_ptr, size, capacity, hash_func, model,
                              failures, resizes, init_capacity, arrays,
                              realloc_zero>>

SpecVec == InitVec /\ [][VecNew \/ VecNewCap \/ VecPush \/ VecPop \/ VecShrink
                            \/ VecFree]_vars

\* a vector that is only pushed to and popped from
SpecVecStack == InitVec /\ [][VecNew \/ VecNewCap \/ VecPush \/ VecPop]_vars

\* The loops of the vector tests: a vector of capacity 100 or 1000 is built
\* and the numbers 0, 1, 2, ... are pushed, 1000 of them, no allocation failing.
TestPushes == 1000

VecNewTest ==
    /\ pc = "none"
    /\ \E c \in {INITIAL_VEC_CAPACITY, TestPushes} : vec_alloc(c, TRUE, "vec_new_cap")

FillPush ==
    /\ pc = "vec"
    /\ size < TestPushes
    /\ \E moved \in BOOLEAN : push_call(size, TRUE, moved)

SpecVecFill == InitVec /\ [][VecNewTest \/ FillPush]_vars

\* ------------------------------------------------------------------ claims
\* the entries of a chain, in chain order
RECURSIVE chain_entries(_, _)
chain_entries(h, curr) ==
    IF curr = NULL THEN <<>>
    ELSE <<(<<h[curr].key, h[curr].val>>)>> \o chain_entries(h, h[curr].next)

\* the entries of every bucket of a map
Chains(m) == [i \in DOMAIN m.buckets |-> chain_entries(m.heap, m.buckets[i].root)]

\* a step that is a hmap_put call that returned
PutStep == pc = "live" /\ pc' = "live" /\ ret'.op = "put"

\* what the history says hmap_get(k) is to return
Expected(k) == model[k]

\* C1: while no malloc has failed, every hmap_get(k) that returns gives the
\* value of the last put(k, v) not followed by remove(k), present, and an
\* absent option for every other key, resizes or not.
C1_GetReturnsLastPut ==
    (pc = "live" /\ ret.op = "get" /\ failures = 0) => ret.opt = Expected(ret.key)

\* a get that found its key after a resize, another key being absent
C1_Witness ==
    /\ pc = "live" /\ ret.op = "get" /\ failures = 0 /\ resizes >= 1
    /\ ret.opt.present
    /\ \E k \in Keys : ~model[k].present

\* C2: a put that adds an entry, brings size to capacity + 1 and whose malloc
\* of the new bucket array fails returns ERROR_OUT_OF_MEM, leaves capacity and
\* the bucket array as they were but for the new entry at the end of its
\* chain, and the entry is stored: get finds the new value, size counts it.
C2_FailedArrayAllocKeepsEntry ==
    [][(/\ PutStep
        /\ ~hmap_get(Map, ret'.key).present
        /\ size + 1 = capacity + 1
        /\ ret'.fails = {2})
       => /\ ret'.status = ERROR_OUT_OF_MEM
          /\ capacity' = capacity
          /\ buckets_ptr' = buckets_ptr
          /\ size' = size + 1
          /\ hmap_get(Map', ret'.key) = opt_some(ret'.val)
          /\ Chains(Map') =
                [Chains(Map) EXCEPT ![bucket_pos(hash_func, ret'.key, capacity)] =
                                        Append(@, <<ret'.key, ret'.val>>)]]_vars

\* a put whose resize could not allocate the new array has returned
C2_Witness ==
    /\ pc = "live" /\ ret.op = "put" /\ ret.fails = {2}
    /\ ret.status = ERROR_OUT_OF_MEM
    /\ size = capacity + 1
    /\ hmap_get(Map, ret.key) = opt_some(ret.val)

\* C3: whichever mallocs of a hmap_put(k, v) fail, every key other than k
\* that get found before the call is found after it with the same value.
C3_PutKeepsOtherKeys ==
    [][PutStep =>
          \A k \in Keys \ {ret'.key} :
              hmap_get(Map, k).present => hmap_get(Map', k) = hmap_get(Map, k)]_vars

\* the sum of the length fields of the chains in S
RECURSIVE sum_lengths(_, _)
sum_lengths(bs, S) ==
    IF S = {} THEN 0
    ELSE LET i == CHOOSE x \in S : TRUE IN bs[i].length + sum_lengths(bs, S \ {i})

\* C4: in every state of a map, failed mallocs or not, size is the sum of the
\* length fields of its chains.
C4_SizeIsSumOfLengths ==
    pc = "live" =>
        size = sum_lengths(buckets, {i \in DOMAIN buckets : buckets[i].length # 0})

\* C5: hmap_new_cap with capacity 0 returns an absent option whose error is
\* ERROR_BAD_ARG, and no map.
C5_ZeroCapacityIsBadArg ==
    (ret.op = "new_cap" /\ ret.cap = 0) =>
        (~ret.opt.present /\ ret.opt.error = ERROR_BAD_ARG /\ pc = "none")

\* C6: the capacity of a map a constructor returned as present is greater
\* than 0 in every state and never decreases from one state to the next;
\* hmap_remove and hmap_get never change it.
C6_CapacityPositiveNeverShrinks ==
    [][/\ pc' = "live" => capacity' > 0
       /\ (pc = "live" /\ pc' = "live") => capacity' >= capacity
       /\ (pc = "live" /\ pc' = "live" /\ ret'.op \in {"get", "remove"})
             => capacity' = capacity]_vars

\* C7: hmap_put calls _resize exactly when the call added a new entry and
\* size after the increment equals capacity + 1; the bucket array and the
\* capacity change exactly when moreover the new array could be allocated.
C7_ResizeExactlyAtThreshold ==
    [][PutStep =>
          LET added == ~hmap_get(Map, ret'.key).present /\ 1 \notin ret'.fails
              due == added /\ size + 1 = capacity + 1
          IN /\ ret'.resize_called <=> due
             /\ (buckets_ptr' # buckets_ptr) <=> (due /\ 2 \notin ret'.fails)
             /\ (capacity' # capacity) <=> (due /\ 2 \notin ret'.fails)]_vars

\* a put has resized the map, and the capacity is twice the initial one
C7_Witness ==
    /\ pc = "live" /\ ret.op = "put" /\ ret.resize_called /\ ret.fails = {}
    /\ capacity = 2 * init_capacity

\* C8 (checked under SpecResize): from an empty map of capacity C >= 1, up to
\* C distinct keys cause no resize, and C + 1 up to 2 * C distinct keys have
\* caused exactly one, after which capacity is 2 * C; every inserted key is
\* retrievable with its value.
C8_OneResizeDoublesCapacity ==
    pc = "live" =>
        /\ size <= init_capacity => (resizes = 0 /\ capacity = init_capacity)
        /\ (init_capacity < size /\ size <= 2 * init_capacity)
              => (resizes = 1 /\ capacity = 2 * init_capacity)
        /\ \A k \in Keys : hmap_get(Map, k) = Expected(k)

\* C + 1 keys have been inserted into a map built with capacity C = MaxCap
C8_Witness ==
    /\ pc = "live" /\ init_capacity = MaxCap /\ size = init_capacity + 1
    /\ resizes = 1 /\ capacity = 2 * init_capacity
    /\ \A k \in 0..init_capacity : hmap_get(Map, k).present

\* C9: hmap_put(k, v2) on a map that holds k returns STATUS_OK, leaves size,
\* capacity and the bucket array unchanged, makes no malloc, keeps every chain
\* as it was but for the value of k, and get(k) then returns v2.
C9_OverwriteInPlace ==
    [][(PutStep /\ hmap_get(Map, ret'.key).present)
       => /\ ret'.status = STATUS_OK
          /\ size' = size
          /\ capacity' = capacity
          /\ buckets_ptr' = buckets_ptr
          /\ ret'.n = 0
          /\ {a \in Addr : heap'[a].used} = {a \in Addr : heap[a].used}
          /\ hmap_get(Map', ret'.key) = opt_some(ret'.val)
          /\ \A i \in DOMAIN buckets :
                /\ Len(Chains(Map')[i]) = Len(Chains(Map)[i])
                /\ \A j \in 1..Len(Chains(Map)[i]) :
                      Chains(Map')[i][j] =
                          IF Chains(Map)[i][j][1] = ret'.key
                          THEN <<ret'.key, ret'.val>>
                          ELSE Chains(Map)[i][j]]_vars

\* a put has overwritten the key in the middle of a chain of three
C9_Witness ==
    /\ pc = "live" /\ ret.op = "put" /\ ret.path = "overwrite"
    /\ \E i \in DOMAIN buckets :
          /\ Len(Chains(Map)[i]) = 3
          /\ Chains(Map)[i][2] = <<ret.key, ret.val>>

\* C10: hmap_remove(k) on a map that holds k returns k's stored value as
\* present and decrements size by one, after which get(k) is absent; and a key
\* get does not find stays not found through every call but a put of it.
C10_RemoveThenAbsentUntilPut ==
    [][(pc = "live" /\ pc' = "live") =>
          \A k \in Keys :
             /\ (ret'.op = "remove" /\ ret'.key = k /\ hmap_get(Map, k).present)
                   => /\ ret'.opt = hmap_get(Map, k)
                      /\ size' = size - 1
                      /\ ~hmap_get(Map', k).present
             /\ (~hmap_get(Map, k).present /\ ~(ret'.op = "put" /\ ret'.key = k))
                   => ~hmap_get(Map', k).present]_vars

\* a remove has taken a key out of a chain of three
C10_Witness ==
    /\ pc = "live" /\ ret.op = "remove" /\ ret.opt.present
    /\ ~hmap_get(Map, ret.key).present
    /\ \E i \in DOMAIN buckets : Len(Chains(Map)[i]) = 2 /\ size = 2

\* C11: hmap_remove(k) on a map that does not hold k returns an absent option
\* and leaves size, capacity, the bucket array and every chain as they were;
\* holding of every such call, it holds of any number of them in a row.
C11_RemoveAbsentIsNoOp ==
    [][(/\ pc = "live" /\ pc' = "live" /\ ret'.op = "remove"
        /\ ~hmap_get(Map, ret'.key).present)
       => /\ ~ret'.opt.present
          /\ size' = size
          /\ capacity' = capacity
          /\ buckets_ptr' = buckets_ptr
          /\ buckets' = buckets
          /\ heap' = heap
          /\ Chains(Map') = Chains(Map)]_vars

\* a remove has missed a key whose bucket holds two other entries
C11_Witness ==
    /\ pc = "live" /\ ret.op = "remove" /\ ~ret.opt.present
    /\ size = 2
    /\ Len(Chains(Map)[bucket_pos(hash_func, ret.key, capacity)]) = 2

\* the keys hmap_get finds in a map
present_keys(m) == {k \in Keys : hmap_get(m, k).present}

\* C12: after any sequence of successful hmap_put and hmap_remove calls size
\* is the number of keys hmap_get finds.  Stated call by call: a map just
\* built with capacity > 0 has size 0 and no key, and a remove, or a put that
\* returns STATUS_OK, on a map whose size is its number of keys leaves a map
\* whose size is its number of keys (so N puts of distinct keys give size N).
C12_SizeCountsPresentKeys ==
    [][/\ (pc = "none" /\ pc' = "live" /\ capacity' > 0)
          => (size' = 0 /\ present_keys(Map') = {})
       /\ (/\ pc = "live" /\ pc' = "live" /\ ret'.op \in {"put", "remove"}
           /\ ret'.op = "put" => ret'.status = STATUS_OK
           /\ size = Cardinality(present_keys(Map)))
          => size' = Cardinality(present_keys(Map'))]_vars

\* C13: in every state of a map, right after a resize included, every entry
\* with key k is in the chain of bucket hash_func(k) mod capacity.
C13_EntriesInTheirBucket ==
    pc = "live" =>
        \A i \in DOMAIN buckets :
            \A j \in 1..Len(Chains(Map)[i]) :
                hash_func[Chains(Map)[i][j][1]] % capacity = i

\* a put has resized a map of three entries that now lie in different buckets
C13_Witness ==
    /\ pc = "live" /\ ret.op = "put" /\ ret.resize_called /\ resizes >= 1
    /\ size = 3
    /\ Cardinality({i \in DOMAIN buckets : Len(Chains(Map)[i]) > 0}) >= 2

\* the places (bucket, position in its chain) of the entries of a map
places(m) ==
    {t \in (DOMAIN m.buckets) \X (1..MaxNodes) : t[2] <= Len(Chains(m)[t[1]])}

\* the key of the entry at a place
key_at(m, t) == Chains(m)[t[1]][t[2]][1]

\* C14: in every state of a map no two entries, of one bucket or of two, have
\* keys that key_cmp reports equal.
C14_OneEntryPerKey ==
    pc = "live" =>
        \A t \in places(Map), u \in places(Map) :
            t # u => ~key_cmp(key_at(Map, t), key_at(Map, u))

\* three entries are stored, put through the empty-bucket path, the append
\* path and a resize
C14_Witness ==
    /\ pc = "live" /\ Cardinality(places(Map)) = 3 /\ resizes >= 1
    /\ \E t \in places(Map) : t[2] = 2

\* C15: when the malloc of the chain node in hmap_put returns NULL, put
\* returns ERROR_OUT_OF_MEM, _resize is not called, and size, capacity, the
\* bucket array and the length and contents of every chain are as before.
C15_FailedNodeAllocChangesNothing ==
    [][(PutStep /\ 1 \in ret'.fails)
       => /\ ret'.status = ERROR_OUT_OF_MEM
          /\ ~ret'.resize_called
          /\ ret'.n = 1
          /\ size' = size
          /\ capacity' = capacity
          /\ buckets_ptr' = buckets_ptr
          /\ buckets' = buckets
          /\ heap' = heap
          /\ Chains(Map') = Chains(Map)]_vars

\* a put into a full map (one more entry would resize it) could not allocate
\* its node
C15_Witness ==
    /\ pc = "live" /\ ret.op = "put" /\ 1 \in ret.fails
    /\ ret.status = ERROR_OUT_OF_MEM
    /\ ret.path = "append"
    /\ size = capacity
    /\ ~hmap_get(Map, ret.key).present

\* C16: hmap_new returns a map of capacity INITIAL_HASHMAP_CAPACITY and
\* hmap_new_cap(c) one of capacity c, with size 0 and capacity buckets that
\* are all empty chains; when the malloc of the bucket array fails the
\* constructor returns an absent option with ERROR_OUT_OF_MEM, there is no
\* map and nothing is allocated.
C16_ConstructorResult ==
    ret.op \in {"new", "new_cap"} =>
        IF ret.opt.present
        THEN /\ pc = "live"
             /\ capacity = (IF ret.op = "new" THEN INITIAL_HASHMAP_CAPACITY
                                              ELSE ret.cap)
             /\ size = 0
             /\ DOMAIN buckets = 0..(capacity - 1)
             /\ \A i \in DOMAIN buckets :
                   buckets[i] = [root |-> NULL, last |-> NULL, length |-> 0]
             /\ \A a \in Addr : ~heap[a].used
        ELSE /\ ret.opt.error = ERROR_OUT_OF_MEM
             /\ ret.fails = {1}
             /\ pc = "none"
             /\ buckets_ptr = NULL
             /\ buckets = <<>>
             /\ \A a \in Addr : ~heap[a].used

\* hmap_new has returned a map
C16_Witness ==
    /\ ret.op = "new" /\ ret.opt.present
    /\ capacity = INITIAL_HASHMAP_CAPACITY
    /\ Cardinality(DOMAIN buckets) = INITIAL_HASHMAP_CAPACITY

\* C17: every absent option hmap_get or hmap_remove returns has error
\* STATUS_OK, never ERROR_OUT_OF_MEM or ERROR_BAD_ARG.
C17_MissCarriesNoError ==
    (ret.op \in {"get", "remove"} /\ pc = "live" /\ ~ret.opt.present)
        => ret.opt.error = STATUS_OK

\* a remove has missed its key in a map one of whose mallocs had failed
C17_Witness ==
    /\ pc = "live" /\ ret.op = "remove" /\ ~ret.opt.present
    /\ failures > 0 /\ size > 0

pred_of(h, list, node) ==
    IF node = list.root THEN NULL
    ELSE CHOOSE p \in Addr : h[p].used /\ h[p].next = node

\* a sequence without its p-th element
without(seq, p) == SubSeq(seq, 1, p - 1) \o SubSeq(seq, p + 1, Len(seq))

\* the place of a node in a list
place_of(h, list, node) ==
    CHOOSE p \in 1..MaxNodes :
        p <= Len(list_nodes(h, list)) /\ list_nodes(h, list)[p] = node

\* C19 as claimed: for every list the calls build, every node of it and every
\* prev (a node of it or NULL) that is not the node before node,
\* ll_remove(list, node, prev) leaves the list and its nodes as they were.
C19_WrongPrevIsNoOp ==
    (pc = "list" /\ TheList.root # NULL) =>
        \A node \in RemoveNodes, prev \in RemoveNodes \cup {NULL} :
            prev # pred_of(heap, TheList, node)
                => ll_remove(heap, TheList, node, prev)
                       = [heap |-> heap, list |-> TheList]

\* C19 as the code has it: with a prev that is not the node before node,
\* ll_remove is a no-op when node is neither the root nor the last node; the
\* root and the last node are taken out of the list whatever prev is: the
\* other nodes keep their order and length goes down by one.
C19_WrongPrevIsNoOpInside ==
    (pc = "list" /\ TheList.root # NULL) =>
        \A node \in RemoveNodes, prev \in RemoveNodes \cup {NULL} :
            prev # pred_of(heap, TheList, node) =>
                LET r == ll_remove(heap, TheList, node, prev) IN
                IF node # TheList.root /\ node # TheList.last
                THEN r = [heap |-> heap, list |-> TheList]
                ELSE /\ chain_entries(r.heap, r.list.root)
                          = without(chain_entries(heap, TheList.root),
                                    place_of(heap, TheList, node))
                     /\ r.list.length = TheList.length - 1
                     /\ ~r.heap[node].used

\* ll_remove was called on a list of four with a node inside it and a prev
\* that is a node of the list but not the one before it, and the four nodes
\* are still there
C19_Witness ==
    /\ pc = "list" /\ ret.op = "ll_remove"
    /\ TheList.length = 4 /\ Len(list_nodes(heap, TheList)) = 4
    /\ ret.node \in RemoveNodes \ {TheList.root, TheList.last}
    /\ ret.prev \in RemoveNodes
    /\ heap[ret.prev].next # ret.node

\* C20: in every state of a list reached from ll_new by pushf, pushb, popf,
\* popb and ll_remove calls (pushes whose malloc fails among them), length
\* is the number of nodes reachable from root, and root is NULL exactly when
\* last is NULL and exactly when length is 0.
C20_LengthCountsNodes ==
    pc = "list" =>
        /\ TheList.length = Len(list_nodes(heap, TheList))
        /\ (TheList.root = NULL) <=> (TheList.last = NULL)
        /\ (TheList.root = NULL) <=> (TheList.length = 0)

\* a list that a push could not extend has been emptied by a popb
C20_Witness ==
    /\ pc = "list" /\ ret.op = "ll_popb" /\ ret.opt.present
    /\ failures > 0
    /\ TheList = [root |-> NULL, last |-> NULL, length |-> 0]

\* the items of the list, first to last
list_items == chain_entries(heap, TheList.root)

\* C21: while no malloc has failed the list is a double-ended sequence of
\* its items: pushf puts the item first, pushb puts it last, popf takes the
\* first item off and returns it, popb the last, and on an empty list both
\* return an absent option and leave it empty with length 0 (so what pushb
\* put in comes back from popf in insertion order, from popb in reverse).
C21_ListIsDeque ==
    [][(pc = "list" /\ pc' = "list" /\ failures' = 0) =>
          LET before == list_items
              after == list_items'
              item == <<ret'.key, ret'.val>>
          IN /\ TheList'.length = Len(after)
             /\ ret'.op = "ll_pushf"
                   => (ret'.status = STATUS_OK /\ after = <<item>> \o before)
             /\ ret'.op = "ll_pushb"
                   => (ret'.status = STATUS_OK /\ after = Append(before, item))
             /\ (ret'.op \in {"ll_popf", "ll_popb"} /\ before = <<>>)
                   => /\ ret'.opt = opt_none
                      /\ TheList' = [root |-> NULL, last |-> NULL, length |-> 0]
             /\ (ret'.op = "ll_popf" /\ before # <<>>)
                   => /\ ret'.opt = opt_some(before[1][2])
                      /\ item = before[1]
                      /\ after = Tail(before)
             /\ (ret'.op = "ll_popb" /\ before # <<>>)
                   => /\ ret'.opt = opt_some(before[Len(before)][2])
                      /\ item = before[Len(before)]
                      /\ after = SubSeq(before, 1, Len(before) - 1)]_vars

\* popb has returned the last of four items that were not all alike
C21_Witness ==
    /\ pc = "list" /\ failures = 0
    /\ ret.op = "ll_popb" /\ ret.opt.present
    /\ Len(list_items) = 3
    /\ list_items[1][1] # ret.key

\* C22: the option constructors give exactly these values: some(v) is
\* present with item v and error STATUS_OK, none() is absent with error
\* STATUS_OK, OPT_NONE_ERR(code) is absent with error code; and so is every
\* option a call has returned.
C22_OptionConstructors ==
    /\ \A v \in Vals \cup {0} :
          opt_some(v) = [present |-> TRUE, item |-> v, error |-> STATUS_OK]
    /\ ~opt_none.present /\ opt_none.error = STATUS_OK
    /\ \A code \in {STATUS_OK, ERROR_OUT_OF_MEM, ERROR_BAD_ARG} :
          ~OPT_NONE_ERR(code).present /\ OPT_NONE_ERR(code).error = code
    /\ ret.opt.present => ret.opt.error = STATUS_OK
    /\ (ret.op \in {"new", "new_cap"} /\ ~ret.opt.present)
          => ret.opt.error = ERROR_OUT_OF_MEM
    /\ (ret.op \in {"get", "remove"} /\ pc = "live" /\ ret.opt.present)
          => ret.opt.item \in Vals

\* a constructor has returned OPT_NONE_ERR(ERROR_OUT_OF_MEM)
C22_Witness ==
    /\ ret.op = "new" /\ ~ret.opt.present
    /\ ret.opt = [present |-> FALSE, item |-> 0, error |-> ERROR_OUT_OF_MEM]

\* the address of the node at a place
node_at(m, t) == chain_addrs(m.heap, m.buckets[t[1]].root)[t[2]]

\* the cells of the heap that are allocated
used_cells == {a \in Addr : heap[a].used}

\* C23: every chain node and every bucket array the map allocated is freed
\* exactly once by the time hmap_free has returned.  While the map lives the
\* allocated nodes are exactly the nodes of its chains, each at one place only
\* (so the walks of _ll_free meet every node once and a resize or a remove
\* has freed every node it unlinked), the current bucket array has not been
\* freed and every earlier one has been freed once; after hmap_free no node
\* is allocated and every bucket array has been freed once.
C23_EveryAllocationFreedOnce ==
    /\ pc = "live" =>
          /\ \A t \in places(Map), u \in places(Map) :
                 t # u => node_at(Map, t) # node_at(Map, u)
          /\ used_cells = {node_at(Map, t) : t \in places(Map)}
          /\ Len(arrays) = resizes + 1
          /\ buckets_ptr = Len(arrays)
          /\ \A p \in 1..Len(arrays) : arrays[p] = IF p = buckets_ptr THEN 0 ELSE 1
    /\ pc = "freed" =>
          /\ used_cells = {}
          /\ Len(arrays) = resizes + 1
          /\ \A p \in 1..Len(arrays) : arrays[p] = 1

\* hmap_free has returned on a map that held three entries and had resized
C23_Witness ==
    /\ pc = "freed"
    /\ ret.op = "free"
    /\ size = 3
    /\ resizes >= 1
    /\ Len(arrays) >= 2
    /\ used_cells = {}

\* a step that is a _vec_push call that returned
VecPushStep == pc = "vec" /\ pc' = "vec" /\ ret'.op = "vec_push"

\* C24: vec_push calls realloc exactly when length equals capacity before the
\* push, and a push that then succeeds leaves the capacity 1.5 times the old
\* one, truncated; a push with length < capacity leaves the capacity as it
\* was.  From capacity 100 the capacities met are 100, 150, 225, 337, 505,
\* 757 and 1135, so 1000 pushes end with capacity 1135, and 1000 pushes into
\* capacity 1000 end with capacity 1000.
C24_PushGrowsByHalf ==
    [][VecPushStep =>
          /\ ret'.realloc_called <=> (size = capacity)
          /\ (size = capacity /\ ret'.status = STATUS_OK)
                => /\ 2 * capacity' <= 3 * capacity
                   /\ 3 * capacity < 2 * capacity' + 2
          /\ size < capacity => capacity' = capacity
          /\ init_capacity' = 100
                => /\ capacity' \in {100, 150, 225, 337, 505, 757, 1135}
                   /\ size' = 1000 => capacity' = 1135
          /\ (init_capacity' = 1000 /\ size' = 1000) => capacity' = 1000
      ]_vars

\* the 1000th push into the vector built with capacity 100 has returned
C24_Witness ==
    /\ pc = "vec"
    /\ ret.op = "vec_push"
    /\ ret.status = STATUS_OK
    /\ init_capacity = 100
    /\ size = 1000
    /\ capacity = 1135

\* a step that is a vector call that returned
VecStep(op) == pc = "vec" /\ pc' = "vec" /\ ret'.op = op

\* the items v[0] .. v[length - 1] lie in the buffer before and after a step
\* and are the same
items_kept(n) ==
    \A i \in 0..(n - 1) :
        /\ in_buffer(Vec, i)
        /\ in_buffer(Vec', i)
        /\ buckets'[i] = buckets[i]

\* C25: the vector is a stack over an indexable sequence.  A vec_push that
\* returns STATUS_OK leaves length one more, the item in v[length - 1] and
\* the items below it as they were, reallocation or not; a vec_pop on a vector
\* that is not empty returns the item in v[length - 1] and leaves length one
\* less and the items below it as they were; a vec_pop on an empty vector
\* returns an absent option and leaves length 0.
C25_VectorIsStack ==
    [][/\ (VecStep("vec_push") /\ ret'.status = STATUS_OK)
             => /\ size' = size + 1
                /\ in_buffer(Vec', size)
                /\ buckets'[size] = ret'.val
                /\ items_kept(size)
       /\ (VecStep("vec_pop") /\ size > 0)
             => /\ size' = size - 1
                /\ in_buffer(Vec, size - 1)
                /\ ret'.opt = opt_some(buckets[size - 1])
                /\ items_kept(size')
       /\ (VecStep("vec_pop") /\ size = 0)
             => /\ ~ret'.opt.present
                /\ size' = 0
      ]_vars

C27_FailedPushChangesNothing ==
    [][(VecStep("vec_push") /\ (failures' # failures \/ ret'.status # STATUS_OK))
          => /\ ret'.status = ERROR_OUT_OF_MEM
             /\ failures' = failures + 1
             /\ ret'.realloc_called
             /\ size = capacity
             /\ UNCHANGED <<size, capacity, buckets_ptr, buckets, heap>>
      ]_vars

\* a vec_push on a full vector of two items has returned ERROR_OUT_OF_MEM
C27_Witness ==
    /\ pc = "vec"
    /\ ret.op = "vec_push"
    /\ ret.status = ERROR_OUT_OF_MEM
    /\ failures = 1
    /\ size = 2
    /\ capacity = 2
    /\ in_buffer(Vec, 1)
    /\ buckets[1] \in Vals

\* C30: in every state of a vector built by vec_new or vec_new_cap and used
\* through vec_push, vec_pop and vec_shrink, 0 <= length <= capacity and
\* capacity > 0, and every vec_push has written its item at an index inside
\* the allocated buffer.
C30_LengthWithinCapacity ==
    /\ pc = "vec" => (0 <= size /\ size <= capacity /\ capacity > 0)
    /\ (ret.op = "vec_push" /\ ret.index >= 0)
          => (pc = "vec" /\ in_buffer(Vec, ret.index))

\* the node reached from a by following next n times, NULL once the chain ended
RECURSIVE walk(_, _, _)
walk(h, a, n) == IF n = 0 \/ a = NULL THEN a ELSE walk(h, h[a].next, n - 1)

\* a chain is acyclic (following next from root reaches NULL, in no more steps
\* than there are nodes) and, when it has a node, last is reached from root
\* and is the node that ends it
chain_ends(h, list) ==
    /\ walk(h, list.root, MaxNodes) = NULL
    /\ list.root # NULL
          => /\ list.last # NULL
             /\ h[list.last].next = NULL
             /\ \E n \in 0..(MaxNodes - 1) : walk(h, list.root, n) = list.last

\* C28: every operation terminates: in every state an operation starts from,
\* every chain of the map is acyclic and its last node is reached from root,
\* so the walks of hmap_put, hmap_get and hmap_remove, the drain loop of
\* _resize (one node popped per round) and the predecessor search of _ll_popb
\* all reach their exit.
C28_ChainsEnd ==
    pc = "live" => \A i \in DOMAIN buckets : chain_ends(heap, buckets[i])

\* a map that has resized holds a chain of two nodes, after a removal
C28_Witness ==
    /\ pc = "live"
    /\ resizes >= 1
    /\ ret.op = "remove"
    /\ ret.opt.present
    /\ \E i \in DOMAIN buckets :
          /\ walk(heap, buckets[i].root, 1) = buckets[i].last
          /\ buckets[i].last # NULL
          /\ buckets[i].last # buckets[i].root
          /\ buckets[i].length = 2

\* C29: in a map built with capacity >= 1, while no allocation has failed,
\* size <= capacity whenever a hmap_put or a hmap_remove has returned: the
\* map never holds more entries than it has buckets.
C29_SizeWithinCapacity ==
    (/\ pc = "live"
     /\ init_capacity >= 1
     /\ failures = 0
     /\ ret.op \in {"put", "remove"})
        => size <= capacity

\* a put that resized has returned and the map is as full as it may be
C29_Witness ==
    /\ pc = "live"
    /\ init_capacity >= 1
    /\ failures = 0
    /\ ret.op = "put"
    /\ ret.resize_called
    /\ resizes >= 1
    /\ size = capacity

\* C31: a hmap_put(k, v) that returns STATUS_OK changes the mapping of k
\* only: for every other key hmap_get returns after the call what it returned
\* before it, present or absent, whichever path the call took (empty bucket,
\* overwrite, append) and whether it resized or not.
C31_PutChangesOneKey ==
    [][(PutStep /\ ret'.status = STATUS_OK) =>
          \A k2 \in Keys \ {ret'.key} : hmap_get(Map', k2) = hmap_get(Map, k2)]_vars

\* a step that is a hmap_remove call that returned
RemoveStep == pc = "live" /\ pc' = "live" /\ ret'.op = "remove"

\* C32: hmap_remove(k) changes the mapping of k only: for every other key,
\* of the chain of k (before or after k in it) or of another chain, hmap_get
\* returns after the call what it returned before it, whether the node of k
\* was the first, a middle or the last node of its chain, or k was not held.
C32_RemoveChangesOneKey ==
    [][RemoveStep =>
          \A k2 \in Keys \ {ret'.key} : hmap_get(Map', k2) = hmap_get(Map, k2)]_vars

\* a remove has taken a key out of a chain of three and the two keys left in
\* the chain are found, with their values
C32_Witness ==
    /\ pc = "live"
    /\ ret.op = "remove"
    /\ ret.opt.present
    /\ \E i \in DOMAIN buckets :
          /\ Len(Chains(Map)[i]) = 2
          /\ \A j \in 1..2 :
                /\ Chains(Map)[i][j][1] # ret.key
                /\ hmap_get(Map, Chains(Map)[i][j][1])
                       = opt_some(Chains(Map)[i][j][2])

\* C33: ll_remove(list, node, prev) called with a node of the list and the
\* node before it (NULL for the root) removes exactly that node: the node is
\* freed, length goes down by one, the other nodes stay in the list in the
\* order they had, root is the first of them and last the final one, and both
\* are NULL when none is left.
C33_RemoveWithTruePrev ==
    [][(/\ pc = "list" /\ pc' = "list" /\ ret'.op = "ll_remove"
        /\ ret'.node # NULL
        /\ ret'.prev = pred_of(heap, TheList, ret'.node))
       => LET r == ll_remove(heap, TheList, ret'.node, ret'.prev)
              before == list_nodes(heap, TheList)
              left == without(before, place_of(heap, TheList, ret'.node))
          IN /\ list_nodes(r.heap, r.list) = left
             /\ ~r.heap[ret'.node].used
             /\ \A a \in Addr \ {ret'.node} : r.heap[a].used = heap[a].used
             /\ r.list.length = TheList.length - 1
             /\ r.list.root = IF left = <<>> THEN NULL ELSE left[1]
             /\ r.list.last = IF left = <<>> THEN NULL ELSE left[Len(left)]
             /\ list_items' = without(list_items, place_of(heap, TheList, ret'.node))
             /\ TheList'.length = Len(list_items')
             /\ (TheList'.root = NULL) <=> (left = <<>>)
             /\ (TheList'.last = NULL) <=> (left = <<>>)
      ]_vars

\* ll_remove was called on a list of four with its second node and the node
\* before it (nodes are numbered in list order), and three nodes are left
C33_Witness ==
    /\ pc = "list"
    /\ ret.op = "ll_remove"
    /\ ret.node = 2
    /\ ret.prev = 1
    /\ TheList.length = 3
    /\ Len(list_nodes(heap, TheList)) = 3
====
